---- MODULE Spec2Model ----
(***************************************************************************)
(* A model of the tool functions of tools.py: the JSON-backed task and      *)
(* note stores, the natural-language path resolver, the file search and     *)
(* guarded read, the password generator, the Google Calendar tools and the  *)
(* thin wrappers around remote services.                                    *)
(*                                                                          *)
(* Text is a sequence of symbols.  A symbol is a one-character string; the  *)
(* fixed messages of the program are single symbols (the whole literal), so *)
(* that a message never equals text built from characters.                  *)
(***************************************************************************)
EXTENDS Integers, Sequences, FiniteSets, TLC

VARIABLES
    todo,       \* todo.json: [exists, text]
    notesFile,  \* notes.json: [exists, text]
    token,      \* token.pickle: [exists, loads, creds]
    call,       \* the last tool call: its name and arguments
    ret,        \* what the last tool call gave back: [kind, text]
    effects,    \* the external steps the last tool call performed, in order
    added,      \* history: the tasks added since the task store was last empty
    clean,      \* history: only add/list/clear have touched todo.json since then
    prompted    \* history: the paths handed back by unconfirmed reads so far

vars == <<todo, notesFile, token, call, ret, effects, added, clean, prompted>>

----------------------------------------------------------------------------
(* Characters *)

QUOTE == "\""
BSLASH == "\\"
NL == "\n"
SP == " "
\* A byte that is not valid UTF-8 (0xFF): open(..., encoding="utf-8") cannot decode it.
BAD == "<0xFF>"
\* The NUL byte.
NUL == "<0x00>"

\* str.strip / lstrip / rstrip with no argument remove whitespace.
IsSpace(c) == c \in {SP, NL, "\t", "\r"}

RECURSIVE lstrip(_)
lstrip(s) == IF s # <<>> /\ IsSpace(Head(s)) THEN lstrip(Tail(s)) ELSE s

RECURSIVE rstrip(_)
rstrip(s) ==
    IF s # <<>> /\ IsSpace(s[Len(s)]) THEN rstrip(SubSeq(s, 1, Len(s) - 1)) ELSE s

strip(s) == lstrip(rstrip(s))

\* sep.join(parts)
RECURSIVE join(_, _)
join(sep, parts) ==
    IF parts = <<>> THEN <<>>
    ELSE IF Len(parts) = 1 THEN parts[1]
    ELSE parts[1] \o sep \o join(sep, Tail(parts))

\* key in s (substring test)
Contains(key, s) ==
    \E i \in 0..(Len(s) - Len(key)) : SubSeq(s, i + 1, i + Len(key)) = key

\* str(i) for the small numbers the listings need
Digits == <<"1", "2", "3", "4", "5", "6", "7", "8", "9">>
str(i) ==
    IF i = 0 THEN <<"0">>
    ELSE IF i \in 1..9 THEN <<Digits[i]>>
    ELSE <<"1">> \o <<Digits[i - 9]>>

----------------------------------------------------------------------------
(* JSON values, json.dump(obj, f, indent=2, ensure_ascii=False), json.load *)

JStr(s) == [t |-> "str", v |-> s]
JNum(d) == [t |-> "num", v |-> d]
JObj == [t |-> "obj", v |-> <<>>]
JArr(items) == [t |-> "arr", v |-> items]

IsStrList(val) == val.t = "arr" /\ \A i \in 1..Len(val.v) : val.v[i].t = "str"

\* The texts of a list of str.
Texts(val) == [i \in 1..Len(val.v) |-> val.v[i].v]

\* json.encoder.py_encode_basestring: the escapes of a string's characters
EncodeChar(c) ==
    CASE c = QUOTE -> <<BSLASH, QUOTE>>
      [] c = BSLASH -> <<BSLASH, BSLASH>>
      [] c = NL -> <<BSLASH, "n">>
      [] OTHER -> <<c>>

RECURSIVE EncodeChars(_)
EncodeChars(s) ==
    IF s = <<>> THEN <<>> ELSE EncodeChar(Head(s)) \o EncodeChars(Tail(s))

RECURSIVE Encode(_, _)
Encode(val, indent) ==
    CASE val.t = "str" -> <<QUOTE>> \o EncodeChars(val.v) \o <<QUOTE>>
      [] val.t = "num" -> val.v
      [] val.t = "obj" -> <<"{", "}">>
      [] val.t = "arr" ->
            IF val.v = <<>> THEN <<"[", "]">>
            ELSE LET inner == indent \o <<SP, SP>>
                     items == [i \in 1..Len(val.v) |-> Encode(val.v[i], inner)]
                 IN  <<"[", NL>> \o inner
                       \o join(<<",", NL>> \o inner, items)
                       \o <<NL>> \o indent \o <<"]">>

json_dump(val) == Encode(val, <<>>)

\* json.decoder: whitespace between tokens
IsJsonWs(c) == c \in {SP, NL, "\t", "\r"}

RECURSIVE SkipWs(_, _)
SkipWs(s, i) == IF i <= Len(s) /\ IsJsonWs(s[i]) THEN SkipWs(s, i + 1) ELSE i

Fail == [ok |-> FALSE, val |-> JObj, next |-> 0]
Got(val, next) == [ok |-> TRUE, val |-> val, next |-> next]

\* json.decoder.py_scanstring from the character after the opening quote:
\* `acc` is the text decoded so far.  A raw control character, an unknown
\* escape and a missing closing quote are errors.
RECURSIVE ScanString(_, _, _)
ScanString(s, i, acc) ==
    IF i > Len(s) THEN Fail
    ELSE IF s[i] = QUOTE THEN Got(JStr(acc), i + 1)
    ELSE IF s[i] \in {NL, "\t", "\r", NUL} THEN Fail
    ELSE IF s[i] = BSLASH THEN
        IF i + 1 > Len(s) THEN Fail
        ELSE IF s[i + 1] = QUOTE THEN ScanString(s, i + 2, Append(acc, QUOTE))
        ELSE IF s[i + 1] = BSLASH THEN ScanString(s, i + 2, Append(acc, BSLASH))
        ELSE IF s[i + 1] = "n" THEN ScanString(s, i + 2, Append(acc, NL))
        ELSE Fail
    ELSE ScanString(s, i + 1, Append(acc, s[i]))

IsDigit(c) == c \in {"1", "2", "3", "4", "5", "6", "7", "8", "9"}

RECURSIVE ScanNumber(_, _, _)
ScanNumber(s, i, acc) ==
    IF i <= Len(s) /\ IsDigit(s[i]) THEN ScanNumber(s, i + 1, Append(acc, s[i]))
    ELSE Got(JNum(acc), i)

\* json.scanner.py_make_scanner._scan_once and json.decoder.JSONArray /
\* JSONObject, over the characters of the model: a string, an integer of the
\* digits 1-9, the empty object, or an array of values.
RECURSIVE ScanOnce(_, _)
RECURSIVE ScanItems(_, _, _)
ScanOnce(s, i) ==
    IF i > Len(s) THEN Fail
    ELSE IF s[i] = QUOTE THEN ScanString(s, i + 1, <<>>)
    ELSE IF IsDigit(s[i]) THEN ScanNumber(s, i, <<>>)
    ELSE IF s[i] = "{" THEN
        LET j == SkipWs(s, i + 1)
        IN  IF j <= Len(s) /\ s[j] = "}" THEN Got(JObj, j + 1) ELSE Fail
    ELSE IF s[i] = "[" THEN
        LET j == SkipWs(s, i + 1)
        IN  IF j <= Len(s) /\ s[j] = "]" THEN Got(JArr(<<>>), j + 1)
            ELSE ScanItems(s, j, <<>>)
    ELSE Fail

\* the loop of JSONArray: a value, then "," and the next value, or "]"
ScanItems(s, i, acc) ==
    LET item == ScanOnce(s, i)
    IN  IF ~item.ok THEN Fail
        ELSE LET j == SkipWs(s, item.next)
                 items == Append(acc, item.val)
             IN  IF j > Len(s) THEN Fail
                 ELSE IF s[j] = "]" THEN Got(JArr(items), j + 1)
                 ELSE IF s[j] = "," THEN ScanItems(s, SkipWs(s, j + 1), items)
                 ELSE Fail

\* json.loads: one value, surrounded by whitespace, and nothing after it
\* ("Extra data" is a JSONDecodeError too).
json_loads(s) ==
    LET r == ScanOnce(s, SkipWs(s, 1))
    IN  IF r.ok /\ SkipWs(s, r.next) = Len(s) + 1 THEN r ELSE Fail

\* f.read() of a file opened with encoding="utf-8": a byte that is no UTF-8
\* raises UnicodeDecodeError.
Decodes(text) == \A i \in 1..Len(text) : text[i] # BAD

----------------------------------------------------------------------------
(* Files, calls and results *)

Absent == [exists |-> FALSE, text |-> <<>>]
FileOf(text) == [exists |-> TRUE, text |-> text]

\* A tool call that returned the string `text`.
Str(text) == [kind |-> "str", text |-> text]
\* A tool call that ended by raising: the exception reached the caller.
Raised(name) == [kind |-> "exception", text |-> <<name>>]

\* Python's None as an argument.
None == <<"<None>">>

Call(op, texts, num, flag) == [op |-> op, texts |-> texts, num |-> num, flag |-> flag]

\* str(x) inside an f-string, for the values a store can hold.
RECURSIVE PyStr(_)
PyStr(val) ==
    CASE val.t = "str" -> val.v
      [] val.t = "num" -> val.v
      [] val.t = "obj" -> <<"{", "}">>
      [] val.t = "arr" ->
            <<"[">> \o join(<<",", SP>>,
                            [i \in 1..Len(val.v) |->
                                IF val.v[i].t = "str"
                                THEN <<"'">> \o val.v[i].v \o <<"'">>
                                ELSE PyStr(val.v[i])]) \o <<"]">>

\* bool(x): an empty list, dict or str is false; the integers of the model
\* are not 0.
Truthy(val) == val.v # <<>>

\* list(enumerate(x)) for a list or a str; a dict of the model is empty.
Items(val) ==
    IF val.t = "str" THEN [i \in 1..Len(val.v) |-> JStr(<<val.v[i]>>)] ELSE val.v

\* "\n".join(f"{i+1}. {t}" for i, t in enumerate(tasks))
Listing(items) ==
    join(<<NL>>, [i \in 1..Len(items) |-> str(i) \o <<".", SP>> \o PyStr(items[i])])

----------------------------------------------------------------------------
(* The task store *)

Init ==
    /\ todo = Absent
    /\ notesFile = Absent
    /\ token = [exists |-> FALSE, loads |-> FALSE,
                 creds |-> [valid |-> FALSE, expired |-> FALSE, refresh_token |-> FALSE]]
    /\ call = Call("start", <<>>, 0, FALSE)
    /\ ret = Str(<<>>)
    /\ effects = <<>>
    /\ added = <<>>
    /\ clean = TRUE
    /\ prompted = {}

\* The most tasks the model adds to one list.
MaxTasks == 2

\* The task texts the model adds: the empty text, one with a space and a
\* quote, and one with a backslash followed by n and a newline.
TaskTexts == { <<>>, <<"a", SP, QUOTE>>, <<BSLASH, "n", NL>> }

\* What another writer may leave in a store file: a truncated array, an
\* object, a number, an array of a number, a bare string, bytes that are no
\* UTF-8, and a compact array of two strings.
ForeignTexts ==
    { <<"[">>,
      <<"{", "}">>,
      <<"1">>,
      <<"[", "1", "]">>,
      <<QUOTE, "a", QUOTE>>,
      <<BAD>>,
      <<"[", QUOTE, "a", SP, QUOTE, ",", SP, QUOTE, "b", QUOTE, "]">> }

save_tasks(tasks) == FileOf(json_dump(tasks))

load_tasks_keep(file) ==
    IF ~file.exists THEN [val |-> JArr(<<>>), file |-> file]
    ELSE IF ~Decodes(file.text) THEN [val |-> JArr(<<>>), file |-> file]
    ELSE LET r == json_loads(file.text)
         IN  IF r.ok THEN [val |-> r.val, file |-> file]
             ELSE [val |-> JArr(<<>>), file |-> file]

\* load_tasks: what it returns and what it leaves in todo.json
load_tasks(file) ==
    IF ~file.exists THEN [val |-> JArr(<<>>), file |-> file]
    ELSE IF ~Decodes(file.text) THEN [val |-> JArr(<<>>), file |-> file]
    ELSE LET r == json_loads(file.text)
         IN  IF r.ok THEN [val |-> r.val, file |-> file]
             ELSE [val |-> JArr(<<>>), file |-> save_tasks(JArr(<<>>))]

OtherUnchanged == UNCHANGED <<token, effects, prompted>>

\* add_task with the new task put first: tasks.insert(0, task)
add_task_first(task) ==
    LET l == load_tasks(todo)
    IN  /\ l.val.t = "arr" => Len(l.val.v) < MaxTasks
        /\ call' = Call("add_task", <<task>>, 0, FALSE)
        /\ IF l.val.t = "arr"
           THEN /\ todo' = save_tasks(JArr(<<JStr(task)>> \o l.val.v))
                /\ ret' = Str(<<"Task added: ">> \o task)
           ELSE /\ todo' = l.file
                /\ ret' = Raised("AttributeError")
        /\ added' = IF clean THEN Append(added, task) ELSE <<>>
        /\ UNCHANGED <<notesFile, clean>>
        /\ OtherUnchanged

add_task(task) ==
    LET l == load_tasks(todo)
    IN  /\ l.val.t = "arr" => Len(l.val.v) < MaxTasks
        /\ call' = Call("add_task", <<task>>, 0, FALSE)
        /\ IF l.val.t = "arr"
           THEN /\ todo' = save_tasks(JArr(Append(l.val.v, JStr(task))))
                /\ ret' = Str(<<"Task added: ">> \o task)
           ELSE \* a dict, a str or an int has no append
                /\ todo' = l.file
                /\ ret' = Raised("AttributeError")
        /\ added' = IF clean THEN Append(added, task) ELSE <<>>
        /\ UNCHANGED <<notesFile, clean>>
        /\ OtherUnchanged

list_tasks ==
    LET l == load_tasks(todo)
    IN  /\ call' = Call("list_tasks", <<>>, 0, FALSE)
        /\ todo' = l.file
        /\ ret' = IF ~Truthy(l.val) THEN Str(<<"No tasks in the list.">>)
                  ELSE IF l.val.t = "num" THEN Raised("TypeError")
                  ELSE Str(Listing(Items(l.val)))
        /\ UNCHANGED <<notesFile, added, clean>>
        /\ OtherUnchanged

clear_tasks ==
    /\ call' = Call("clear_tasks", <<>>, 0, FALSE)
    /\ todo' = save_tasks(JArr(<<>>))
    /\ ret' = Str(<<"All tasks cleared.">>)
    /\ added' = <<>>
    /\ clean' = TRUE
    /\ UNCHANGED notesFile
    /\ OtherUnchanged

\* Another writer replaces todo.json (the code takes no lock on it).
EditTodo ==
    /\ \E text \in ForeignTexts : todo' = FileOf(text)
    /\ call' = Call("edit todo.json", <<>>, 0, FALSE)
    /\ ret' = Str(<<>>)
    /\ added' = <<>>
    /\ clean' = FALSE
    /\ UNCHANGED notesFile
    /\ OtherUnchanged

NextTasks ==
    \/ \E task \in TaskTexts : add_task(task)
    \/ list_tasks
    \/ clear_tasks
    \/ EditTodo

----------------------------------------------------------------------------
\* C1: in every run of add_task, list_tasks and clear_tasks that started from
\* an absent or cleared task store, list_tasks returns "No tasks in the
\* list." when no task was added since, and otherwise one line per task added
\* since, numbered from 1 in the order of the adds.
Numbered(texts) ==
    join(<<NL>>, [i \in 1..Len(texts) |-> <<Digits[i]>> \o <<".", SP>> \o texts[i]])

C1_ListAfterAddsAndClear ==
    (call.op = "list_tasks" /\ clean) =>
        /\ ret.kind = "str"
        /\ added = <<>> => ret.text = <<"No tasks in the list.">>
        /\ added # <<>> => ret.text = Numbered(added)

C1_Witness ==
    /\ call.op = "list_tasks"
    /\ clean
    /\ Len(added) = MaxTasks
    /\ added[1] # added[2]
    /\ \E i \in 1..Len(added) : \E j \in 1..Len(added[i]) : added[i][j] \in {QUOTE, BSLASH, NL}

C1_WitnessCleared ==
    /\ call.op = "list_tasks"
    /\ clean
    /\ added = <<>>
    /\ todo = FileOf(<<"[", "]">>)

----------------------------------------------------------------------------
(* The note store *)

\* The longest note the model builds by merging.
MaxNoteLen == 6

\* The note texts the model writes: plain, with whitespace on both sides,
\* and a newline before a quote.
NoteTexts == { <<"a">>, <<SP, "b", SP>>, <<NL, QUOTE>> }

save_notes(notes) == FileOf(json_dump(notes))

\* load_notes: what it returns and what it leaves in notes.json
load_notes(file) ==
    IF ~file.exists THEN [val |-> JArr(<<>>), file |-> file]
    ELSE IF ~Decodes(file.text) THEN [val |-> JArr(<<>>), file |-> file]
    ELSE LET r == json_loads(file.text)
         IN  IF r.ok THEN [val |-> r.val, file |-> file]
             ELSE [val |-> JArr(<<>>), file |-> save_notes(JArr(<<>>))]

NotesUnchanged == UNCHANGED <<todo, added, clean, token, effects, prompted>>

\* the merge with the new text taken as it is: ... + "\n" + note
MergedUnstripped(last, note) == rstrip(last) \o <<NL>> \o note

\* notes[-1].rstrip() + "\n" + note.lstrip()
Merged(last, note) == rstrip(last) \o <<NL>> \o lstrip(note)

write_note(note) ==
    LET l == load_notes(notesFile)
        n == Len(l.val.v)
    IN  /\ call' = Call("write_note", <<note>>, 0, FALSE)
        /\ IF Truthy(l.val)
           THEN IF l.val.t = "arr" /\ l.val.v[n].t = "str"
                THEN LET text == Merged(l.val.v[n].v, note)
                     IN  /\ Len(text) <= MaxNoteLen
                         /\ notesFile' = save_notes(JArr([l.val.v EXCEPT ![n] = JStr(text)]))
                         /\ ret' = Str(<<"Note updated.">>)
                ELSE \* the last entry has no rstrip (AttributeError), a str
                     \* takes no item assignment and an int no index (TypeError)
                     /\ notesFile' = l.file
                     /\ ret' = Raised(IF l.val.t = "arr" THEN "AttributeError"
                                      ELSE "TypeError")
           ELSE IF l.val.t = "arr"
                THEN /\ notesFile' = save_notes(JArr(<<JStr(note)>>))
                     /\ ret' = Str(<<"Note added.">>)
                ELSE \* an empty dict or str has no append
                     /\ notesFile' = l.file
                     /\ ret' = Raised("AttributeError")
        /\ NotesUnchanged

show_notes ==
    LET l == load_notes(notesFile)
    IN  /\ call' = Call("show_notes", <<>>, 0, FALSE)
        /\ notesFile' = l.file
        /\ ret' = IF l.val.t = "num" THEN Raised("TypeError")
                  ELSE IF Listing(Items(l.val)) = <<>> THEN Str(<<"No notes saved.">>)
                  ELSE Str(Listing(Items(l.val)))
        /\ NotesUnchanged

\* Another writer replaces notes.json (the code takes no lock on it).
EditNotes ==
    /\ \E text \in ForeignTexts : notesFile' = FileOf(text)
    /\ call' = Call("edit notes.json", <<>>, 0, FALSE)
    /\ ret' = Str(<<>>)
    /\ NotesUnchanged

NextNotes ==
    \/ \E note \in NoteTexts : write_note(note)
    \/ show_notes
    \/ EditNotes

NextStore == NextTasks \/ NextNotes

SpecStore == Init /\ [][NextStore]_vars

\* The file holds a JSON array of strings.
IsStore(file) ==
    /\ file.exists
    /\ Decodes(file.text)
    /\ json_loads(file.text).ok
    /\ IsStrList(json_loads(file.text).val)

\* The entries of a store file.
Entries(file) == Texts(json_loads(file.text).val)

\* The file exists and can be read as text, and the text is not JSON.
IsInvalidJson(file) ==
    file.exists /\ Decodes(file.text) /\ ~json_loads(file.text).ok

----------------------------------------------------------------------------
\* C2: write_note(t) on an absent or empty note store leaves exactly the one
\* entry t; on a store with entries it keeps their number and all but the
\* last, and the last entry e becomes e without its trailing whitespace, a
\* newline, and t without its leading whitespace.
C2_WriteNoteStep ==
    \A t \in NoteTexts :
        (call'.op = "write_note" /\ call'.texts = <<t>>) =>
            /\ (~notesFile.exists \/ (IsStore(notesFile) /\ Entries(notesFile) = <<>>)) =>
                    /\ IsStore(notesFile')
                    /\ Entries(notesFile') = <<t>>
            /\ (IsStore(notesFile) /\ Entries(notesFile) # <<>>) =>
                    LET old == Entries(notesFile)
                        n == Len(old)
                    IN  /\ IsStore(notesFile')
                        /\ Len(Entries(notesFile')) = n
                        /\ SubSeq(Entries(notesFile'), 1, n - 1) = SubSeq(old, 1, n - 1)
                        /\ Entries(notesFile')[n] = rstrip(old[n]) \o <<NL>> \o lstrip(t)

\* C2: every step of the note store is such a write_note step or no
\* write_note at all.
C2_WriteNote == [][C2_WriteNoteStep]_vars

\* write_note(" b ") merged into the second of two entries
C2_Witness ==
    /\ call.op = "write_note"
    /\ call.texts = << <<SP, "b", SP>> >>
    /\ ret = Str(<<"Note updated.">>)
    /\ IsStore(notesFile)
    /\ Entries(notesFile) = << <<"a", SP>>, <<"b", NL, "b", SP>> >>

----------------------------------------------------------------------------
\* C3 as claimed: after a call that loads a store, the store file (if there is
\* one) parses as a JSON array of strings.
C3_FileIsStoreAfterLoad ==
    /\ call.op \in {"add_task", "list_tasks"} => (todo.exists => IsStore(todo))
    /\ call.op \in {"write_note", "show_notes"} => (notesFile.exists => IsStore(notesFile))

\* C3 as amended: when a store file can be read as text and the text is not
\* valid JSON, the load of the next call returns the empty list and resets the
\* file to "[]": list_tasks and show_notes answer with their empty message and
\* leave "[]", add_task and write_note leave exactly the one new entry.
C3_ResetStep ==
    /\ (IsInvalidJson(todo) /\ call'.op = "list_tasks") =>
            /\ ret' = Str(<<"No tasks in the list.">>)
            /\ todo' = FileOf(<<"[", "]">>)
    /\ (IsInvalidJson(todo) /\ call'.op = "add_task") =>
            /\ IsStore(todo')
            /\ Entries(todo') = call'.texts
    /\ (IsInvalidJson(notesFile) /\ call'.op = "show_notes") =>
            /\ ret' = Str(<<"No notes saved.">>)
            /\ notesFile' = FileOf(<<"[", "]">>)
    /\ (IsInvalidJson(notesFile) /\ call'.op = "write_note") =>
            /\ ret' = Str(<<"Note added.">>)
            /\ IsStore(notesFile')
            /\ Entries(notesFile') = call'.texts

\* C3 as amended: every step that loads a store file whose text is not valid
\* JSON resets it.
C3_InvalidJsonIsReset == [][C3_ResetStep]_vars

\* list_tasks has just reset a todo.json that held a truncated array, while
\* notes.json still holds one.
C3_Witness ==
    /\ call.op = "list_tasks"
    /\ todo = FileOf(<<"[", "]">>)
    /\ ret = Str(<<"No tasks in the list.">>)
    /\ ~clean
    /\ IsInvalidJson(notesFile)

----------------------------------------------------------------------------
(* Paths and the natural-language path resolver *)

\* os.sep
SEP == "\\"

\* The directories the environment gives: %USERPROFILE% (or ~), the process's
\* working directory, os.path.abspath(os.sep), and the login name.
userprofile == <<"<USERPROFILE>">>
Cwd == <<"<cwd>">>
RootDir == <<"<root>", SEP>>
Login == <<"<login>">>
CDrive == <<"C:", SEP>>
DDrive == <<"D:", SEP>>

\* os.path.join(a, b) for a relative b
PathJoin(a, b) == IF a[Len(a)] = SEP THEN a \o b ELSE a \o <<SEP>> \o b

UpperCase == <<"A", "B", "C", "D", "E", "F", "G", "H", "I", "J", "K", "L", "M",
               "N", "O", "P", "Q", "R", "S", "T", "U", "V", "W", "X", "Y", "Z">>
LowerCase == <<"a", "b", "c", "d", "e", "f", "g", "h", "i", "j", "k", "l", "m",
               "n", "o", "p", "q", "r", "s", "t", "u", "v", "w", "x", "y", "z">>

\* str.lower()
lower(s) ==
    [i \in 1..Len(s) |->
        IF \E k \in 1..Len(UpperCase) : UpperCase[k] = s[i]
        THEN LowerCase[CHOOSE k \in 1..Len(UpperCase) : UpperCase[k] = s[i]]
        ELSE s[i]]

\* The dict `mappings`, in insertion order.
mappings ==
    <<
       <<<<"m", "y", " ", "d", "o", "c", "u", "m", "e", "n", "t", "s">>, PathJoin(userprofile, <<"Documents">>)>>,
       <<<<"d", "o", "c", "u", "m", "e", "n", "t", "s", " ", "f", "o", "l", "d", "e", "r">>, PathJoin(userprofile, <<"Documents">>)>>,
       <<<<"d", "o", "w", "n", "l", "o", "a", "d", "s", " ", "f", "o", "l", "d", "e", "r">>, PathJoin(userprofile, <<"Downloads">>)>>,
       <<<<"m", "y", " ", "d", "o", "w", "n", "l", "o", "a", "d", "s">>, PathJoin(userprofile, <<"Downloads">>)>>,
       <<<<"d", "e", "s", "k", "t", "o", "p">>, PathJoin(userprofile, <<"Desktop">>)>>,
       <<<<"p", "i", "c", "t", "u", "r", "e", "s", " ", "f", "o", "l", "d", "e", "r">>, PathJoin(userprofile, <<"Pictures">>)>>,
       <<<<"m", "u", "s", "i", "c", " ", "f", "o", "l", "d", "e", "r">>, PathJoin(userprofile, <<"Music">>)>>,
       <<<<"v", "i", "d", "e", "o", "s", " ", "f", "o", "l", "d", "e", "r">>, PathJoin(userprofile, <<"Videos">>)>>,
       <<<<"c", " ", "d", "r", "i", "v", "e">>, CDrive>>,
       <<<<"d", " ", "d", "r", "i", "v", "e">>, DDrive>>,
       <<<<"r", "o", "o", "t">>, RootDir>>,
       <<<<"h", "o", "m", "e">>, userprofile>>,
       <<<<"u", "s", "e", "r", " ", "f", "o", "l", "d", "e", "r">>, userprofile>>,
       <<<<"d", "o", "c", "u", "m", "e", "n", "t", "s">>, PathJoin(userprofile, <<"Documents">>)>>,
       <<<<"d", "o", "w", "n", "l", "o", "a", "d", "s">>, PathJoin(userprofile, <<"Downloads">>)>>,
       <<<<"p", "i", "c", "t", "u", "r", "e", "s">>, PathJoin(userprofile, <<"Pictures">>)>>,
       <<<<"m", "u", "s", "i", "c">>, PathJoin(userprofile, <<"Music">>)>>,
       <<<<"v", "i", "d", "e", "o", "s">>, PathJoin(userprofile, <<"Videos">>)>>
    >>

K_c_drive == <<"c", " ", "d", "r", "i", "v", "e">>
K_d_drive == <<"d", " ", "d", "r", "i", "v", "e">>
K_documents == <<"d", "o", "c", "u", "m", "e", "n", "t", "s">>

\* The loop over mappings.items(): the value of the first key found in the
\* phrase, if there is one.
FirstMatch(phrase) ==
    LET hits == {k \in 1..Len(mappings) : Contains(mappings[k][1], phrase)}
    IN  IF hits = {} THEN <<>>
        ELSE << mappings[CHOOSE k \in hits : \A h \in hits : k <= h][2] >>

infer_path_from_natural_language(nl_path) ==
    LET phrase == strip(lower(nl_path))
    IN  IF FirstMatch(phrase) # <<>> THEN FirstMatch(phrase)[1]
        ELSE IF Contains(K_c_drive, phrase) /\ Contains(K_documents, phrase)
        THEN PathJoin(PathJoin(PathJoin(CDrive, <<"Users">>), Login), <<"Documents">>)
        ELSE IF Contains(K_d_drive, phrase) /\ Contains(K_documents, phrase)
        THEN PathJoin(PathJoin(PathJoin(DDrive, <<"Users">>), Login), <<"Documents">>)
        ELSE phrase

\* The phrases the model resolves and searches in.
Phrases ==
    { <<"c", " ", "d", "r", "i", "v", "e", " ", "d", "o", "c", "u", "m", "e", "n", "t", "s">>,
      <<"d", "o", "c", "u", "m", "e", "n", "t", "s", " ", "o", "n", " ", "d", " ", "d", "r", "i", "v", "e">>,
      <<"c", " ", "d", "r", "i", "v", "e", " ", "i", "n", " ", "t", "h", "e", " ", "d", "o", "c", "u", "m", "e", "n", "t", "s", " ", "f", "o", "l", "d", "e", "r">>,
      <<"d", " ", "d", "r", "i", "v", "e">>,
      <<"D", "e", "s", "k", "t", "o", "p", " ">>,
      <<"m", "y", " ", "h", "o", "m", "e">>,
      <<"p", "r", "o", "j">>,
      <<" ", "P", "r", "o", "j">>,
      <<".">>,
      <<"M", "y", " ", "D", "o", "c", "u", "m", "e", "n", "t", "s">>,
      <<"m", "u", "s", "i", "c">>,
      <<"h", "o", "m", "e", "w", "o", "r", "k">>,
      <<"R", "e", "p", "o", "r", "t", "s">>,
      <<" ", "t", "m", "p", " ">>,
      <<"v", "i", "d", "e", "o", "s", " ", "f", "o", "l", "d", "e", "r">>,
      <<"u", "s", "e", "r", " ", "f", "o", "l", "d", "e", "r">>,
      <<"r", "o", "o", "t">>,
      <<"p", "i", "c", "t", "u", "r", "e", "s">>,
      <<"d", " ", "d", "r", "i", "v", "e", " ", "d", "o", "c", "u", "m", "e", "n", "t", "s", " ", "f", "o", "l", "d", "e", "r">>,
      <<"D", "a", "t", "a", " ", "S", "e", "t", "s">> }

FileUnchanged == UNCHANGED <<todo, notesFile, token, effects, added, clean>>

----------------------------------------------------------------------------
(* The directory tree, find_file, is_text_file and find_and_read_file *)

\* len(content) > 4000 and content[:4000]
ReadLimit == 4000
\* is_text_file(filepath, blocksize=512)
BlockSize == 512
\* How far the longest file of the model exceeds the read limit.
Extra == 2
\* The length of the file whose odd byte lies after the first block.
LateLen == 600

\* n characters of text
TextOf(n) == SubSeq([i \in 1..n |-> IF i % 2 = 1 THEN "x" ELSE "y"], 1, n)

Proj == PathJoin(Cwd, <<"p", "r", "o", "j">>)

\* The directories os.walk can visit, top-down (a directory before its
\* subdirectories), each with its files and their bytes:
\*   <cwd>                  (no files)
\*   <cwd>\proj             a.txt, logo.bin (a NUL in the first block)
\*   <cwd>\proj\s           big.txt (longer than the limit), lim.txt (exactly the limit)
\*   <cwd>\proj\s\t         a.txt, tail.txt (a non-UTF-8 byte after the first
\*                          block)
Tree ==
    << [path |-> Cwd, files |-> <<>>],
       [path |-> Proj,
        files |-> << [name |-> <<"a.txt">>, content |-> <<"h", "i">>],
                     [name |-> <<"logo.bin">>, content |-> <<"h", NUL, "i">>] >>],
       [path |-> PathJoin(Proj, <<"s">>),
        files |-> << [name |-> <<"big.txt">>, content |-> TextOf(ReadLimit + Extra)],
                     [name |-> <<"lim.txt">>, content |-> TextOf(ReadLimit)] >>],
       [path |-> PathJoin(PathJoin(Proj, <<"s">>), <<"t">>),
        files |-> << [name |-> <<"a.txt">>, content |-> <<"h", "o">>],
                     [name |-> <<"tail.txt">>,
                      content |-> Append(TextOf(LateLen - 1), BAD)] >>] >>

FileNames ==
    { <<"a.txt">>, <<"logo.bin">>, <<"big.txt">>, <<"lim.txt">>, <<"tail.txt">>,
      <<"none.txt">> }

\* The directories the guarded read searches in: a literal path, the same
\* with a capital and a space, and the default ".".
SearchDirs == { <<"p", "r", "o", "j">>, <<" ", "P", "r", "o", "j">>, <<".">> }

\* The values of max_depth the model passes (5 is the default).
Depths == {0, 5}

\* os.path.abspath
abspath(path) ==
    IF path = <<>> \/ path = <<".">> THEN Cwd
    ELSE IF Head(path) \in {"<USERPROFILE>", "<cwd>", "<root>", "C:", "D:"} THEN path
    ELSE PathJoin(Cwd, path)

\* `path` is `top` or lies below it.
Under(top, path) ==
    \/ path = top
    \/ /\ Len(path) > Len(PathJoin(top, <<>>))
       /\ SubSeq(path, 1, Len(PathJoin(top, <<>>))) = PathJoin(top, <<>>)

\* os.path.relpath(path, top) for a path under top
relpath(path, top) ==
    IF path = top THEN <<".">>
    ELSE SubSeq(path, Len(PathJoin(top, <<>>)) + 1, Len(path))

\* rel_path.count(os.sep)
SepCount(path) == Cardinality({i \in 1..Len(path) : path[i] = SEP})

\* `filename in files`
HasFile(dir, filename) == \E k \in 1..Len(dir.files) : dir.files[k].name = filename

\* The bytes of the file `filename` of directory `dir`.
ContentOf(dir, filename) ==
    dir.files[CHOOSE k \in 1..Len(dir.files) : dir.files[k].name = filename].content

NotFound == [found |-> FALSE, path |-> <<>>, root |-> <<>>, content |-> <<>>]

\* find_file: the first directory of the walk, at most max_depth separators
\* below search_dir, that holds filename.  `content` is what the file found
\* holds.
find_file(filename, search_dir, max_depth) ==
    LET top == abspath(search_dir)
        hits == {i \in 1..Len(Tree) :
                    /\ Under(top, Tree[i].path)
                    /\ ~(SepCount(relpath(Tree[i].path, top)) > max_depth)
                    /\ HasFile(Tree[i], filename)}
    IN  IF hits = {} THEN NotFound
        ELSE LET dir == Tree[CHOOSE i \in hits : \A h \in hits : i <= h]
             IN  [found |-> TRUE,
                  path |-> PathJoin(dir.path, filename),
                  root |-> dir.path,
                  content |-> ContentOf(dir, filename)]

\* is_text_file: no NUL in the first block, and the first block decodes.
is_text_file(content) ==
    \A i \in 1..Len(content) : i <= BlockSize => content[i] \notin {NUL, BAD}

PromptText(path) ==
    <<"File found: ">> \o path
        \o <<"\n\nDo you want to read this file? If yes, call this tool again with 'confirm=True'.">>

TooLarge(path) ==
    <<"File '">> \o path
        \o <<"' is too large to display in full. Showing first 4000 characters:\n\n">>

\* the display that cuts a file of exactly the limit too: len(content) >= 4000
DisplayFromLimit(path, content) ==
    IF Len(content) >= ReadLimit
    THEN TooLarge(path) \o SubSeq(content, 1, ReadLimit)
    ELSE <<"File found: ">> \o path \o <<NL, NL>> \o content

\* What a confirmed read of a decodable text file returns.
Display(path, content) ==
    IF Len(content) > ReadLimit
    THEN TooLarge(path) \o SubSeq(content, 1, ReadLimit)
    ELSE <<"File found: ">> \o path \o <<NL, NL>> \o content

\* the confirmation test left out
NeverAsks(confirm) == FALSE

\* the confirmation test the wrong way round: `if confirm:`
AsksWhenConfirmed(confirm) == confirm

\* `if not confirm:`
Asks(confirm) == ~confirm

find_and_read_file(filename, search_dir, max_depth, confirm) ==
    LET resolved_dir == infer_path_from_natural_language(search_dir)
        hit == find_file(filename, resolved_dir, max_depth)
    IN  /\ call' = Call("find_and_read_file", <<filename, search_dir>>, max_depth, confirm)
        /\ ret' =
            IF ~hit.found
            THEN Str(<<"File '">> \o filename \o <<"' not found in '">> \o resolved_dir
                        \o <<"' (searched up to depth ">> \o str(max_depth) \o <<").">>)
            ELSE IF Asks(confirm) THEN Str(PromptText(hit.path))
            ELSE IF ~is_text_file(hit.content)
            THEN Str(<<"File '">> \o hit.path
                        \o <<"' appears to be binary or not a text file. Reading as text is not supported.">>)
            ELSE IF ~Decodes(hit.content)
            THEN Str(<<"Error reading file ">> \o hit.path \o <<": ", "<UnicodeDecodeError>">>)
            ELSE Str(Display(hit.path, hit.content))
        /\ prompted' = IF hit.found /\ Asks(confirm)
                       THEN prompted \cup {hit.path} ELSE prompted
        /\ FileUnchanged

NextFile ==
    \/ \E filename \in FileNames, search_dir \in SearchDirs, max_depth \in Depths,
          confirm \in BOOLEAN :
            find_and_read_file(filename, search_dir, max_depth, confirm)

SpecFile == Init /\ [][NextFile]_vars

\* One application of the resolver.
Resolve(nl_path) ==
    /\ call' = Call("infer_path_from_natural_language", <<nl_path>>, 0, FALSE)
    /\ ret' = Str(infer_path_from_natural_language(nl_path))
    /\ UNCHANGED prompted
    /\ FileUnchanged

\* One application of find_file: the (path, root) it returns, (None, None)
\* when it finds nothing.
FindFile(filename, search_dir, max_depth) ==
    LET hit == find_file(filename, search_dir, max_depth)
    IN  /\ call' = Call("find_file", <<filename, search_dir>>, max_depth, FALSE)
        /\ ret' = IF hit.found THEN [kind |-> "tuple", text |-> <<hit.path, hit.root>>]
                  ELSE [kind |-> "tuple", text |-> <<None, None>>]
        /\ UNCHANGED prompted
        /\ FileUnchanged

NextPath ==
    \/ \E nl_path \in Phrases : Resolve(nl_path)
    \/ \E filename \in FileNames, search_dir \in SearchDirs \cup {Proj},
          max_depth \in Depths \cup {1, 2} :
            FindFile(filename, search_dir, max_depth)

SpecPath == Init /\ [][NextPath]_vars

----------------------------------------------------------------------------
(* The guarded read: C4, C5, C8 *)

\* The directory the last find_and_read_file searched, and what find_file
\* found there.
SearchedTop == abspath(infer_path_from_natural_language(call.texts[2]))
Hit == find_file(call.texts[1], infer_path_from_natural_language(call.texts[2]), call.num)

\* The paths of the files called `filename` in the directories `dirs` of Tree.
PathsOf(filename, dirs) ==
    {PathJoin(Tree[i].path, filename) : i \in {d \in dirs : HasFile(Tree[d], filename)}}

\* The directories at or below `top`, and those of them whose path relative to
\* `top` holds at most max_depth separators.
Below(top) == {i \in 1..Len(Tree) : Under(top, Tree[i].path)}
Within(top, max_depth) ==
    {i \in Below(top) : SepCount(relpath(Tree[i].path, top)) <= max_depth}

EndsWith(tail, text) ==
    /\ Len(tail) <= Len(text)
    /\ SubSeq(text, Len(text) - Len(tail) + 1, Len(text)) = tail

\* What a read shows of a content: at most its first ReadLimit characters.
Shown(content) ==
    IF Len(content) > ReadLimit THEN SubSeq(content, 1, ReadLimit) ELSE content

\* The last call gave back (the shown part of) the content of the file `path`.
Discloses(path) ==
    \E i \in 1..Len(Tree) : \E k \in 1..Len(Tree[i].files) :
        /\ PathJoin(Tree[i].path, Tree[i].files[k].name) = path
        /\ EndsWith(Shown(Tree[i].files[k].content), ret.text)

AllPaths ==
    UNION {PathsOf(filename, 1..Len(Tree)) : filename \in FileNames}

\* The result is the prompt for `path` and holds the content of no file.
IsPromptFor(path) ==
    /\ ret = Str(PromptText(path))
    /\ \A p \in AllPaths : ~Discloses(p)

\* C4 as claimed: an unconfirmed find_and_read_file for a file that exists
\* somewhere under the resolved search directory returns the prompt with that
\* file's path and none of its content.
C4_PromptForExistingFile ==
    (call.op = "find_and_read_file" /\ ~call.flag
        /\ PathsOf(call.texts[1], Below(SearchedTop)) # {}) =>
            \E path \in PathsOf(call.texts[1], Below(SearchedTop)) : IsPromptFor(path)

\* C4 as amended: an unconfirmed find_and_read_file for a file that exists
\* under the resolved search directory in a directory whose relative path
\* holds at most max_depth separators returns the prompt with the path of such
\* a file and no file content.
C4_PromptForFileWithinDepth ==
    (call.op = "find_and_read_file" /\ ~call.flag
        /\ PathsOf(call.texts[1], Within(SearchedTop, call.num)) # {}) =>
            \E path \in PathsOf(call.texts[1], Within(SearchedTop, call.num)) :
                IsPromptFor(path)

\* an unconfirmed call for big.txt, after a confirmed call had shown it
C4_Witness ==
    /\ call.op = "find_and_read_file"
    /\ ~call.flag
    /\ call.texts[1] = <<"big.txt">>
    /\ ret = Str(PromptText(PathJoin(PathJoin(Proj, <<"s">>), <<"big.txt">>)))
    /\ PathJoin(PathJoin(Proj, <<"s">>), <<"big.txt">>) \in prompted

\* C5 as claimed: a call gives back the content of a file only if an earlier
\* call, made without confirmation, had returned that file's path.
C5_DisclosedOnlyAfterPrompt ==
    call.op = "find_and_read_file" =>
        \A path \in AllPaths : Discloses(path) => path \in prompted

\* C5 as amended: a call gives back the content of a file only if that call
\* itself carries confirm = True.
C5_DisclosedOnlyWhenConfirmed ==
    call.op = "find_and_read_file" =>
        \A path \in AllPaths : Discloses(path) => call.flag

\* a confirmed call shows a.txt although no call has prompted for it
C5_Witness ==
    /\ call.op = "find_and_read_file"
    /\ call.flag
    /\ Discloses(PathJoin(Proj, <<"a.txt">>))
    /\ PathJoin(Proj, <<"a.txt">>) \notin prompted

\* A text file: no NUL and no byte that is not UTF-8.
IsTextContent(content) == \A i \in 1..Len(content) : content[i] \notin {NUL, BAD}

----------------------------------------------------------------------------
\* C10: a phrase that holds both "c drive" and "documents" resolves to
\* C:\Users\<login>\Documents, and one that holds both "d drive" and
\* "documents" to D:\Users\<login>\Documents.
C10_CompoundPhrases ==
    call.op = "infer_path_from_natural_language" =>
        LET phrase == strip(lower(call.texts[1]))
        IN  /\ (Contains(K_c_drive, phrase) /\ Contains(K_documents, phrase)) =>
                    ret.text = CDrive \o <<"Users", SEP>> \o Login \o <<SEP, "Documents">>
            /\ (Contains(K_d_drive, phrase) /\ Contains(K_documents, phrase)) =>
                    ret.text = DDrive \o <<"Users", SEP>> \o Login \o <<SEP, "Documents">>

----------------------------------------------------------------------------
\* C11: an input that holds none of the keys of the table, not even after
\* lowering and stripping, comes back unchanged: the same characters, in the
\* same case, with the same surrounding whitespace.
C11_UnmatchedComesBackUnchanged ==
    (/\ call.op = "infer_path_from_natural_language"
     /\ FirstMatch(strip(lower(call.texts[1]))) = <<>>
     /\ FirstMatch(call.texts[1]) = <<>>)
        => ret = Str(call.texts[1])

----------------------------------------------------------------------------
(* generate_password *)

\* if length < 6
MinLength == 6
\* The longest password the model asks for.
MaxLength == 6

\* The grave accent (a character the strings of this module cannot hold).
GRAVE == "<grave accent>"

\* string.ascii_letters, string.digits, string.punctuation
ascii_letters ==
    { "a", "b", "c", "d", "e", "f", "g", "h", "i", "j", "k", "l", "m",
      "n", "o", "p", "q", "r", "s", "t", "u", "v", "w", "x", "y", "z",
      "A", "B", "C", "D", "E", "F", "G", "H", "I", "J", "K", "L", "M",
      "N", "O", "P", "Q", "R", "S", "T", "U", "V", "W", "X", "Y", "Z" }
digits == { "0", "1", "2", "3", "4", "5", "6", "7", "8", "9" }
punctuation ==
    { "!", "\"", "#", "$", "%", "&", "'", "(", ")", "*", "+", ",", "-",
      ".", "/", ":", ";", "<", "=", ">", "?", "@", "[", "\\", "]", "^",
      "_", GRAVE, "{", "|", "}", "~" }

characters == ascii_letters \cup digits \cup punctuation

\* The characters secrets.choice draws in the model: one letter, one digit,
\* one punctuation mark.
Drawn == {c \in characters : c \in {"q", "7", "~"}}

\* the floor test with the floor itself refused: length <= 6
TooShortInclusive(length) == length <= MinLength

TooShort(length) == length < MinLength

ToolUnchanged == UNCHANGED <<todo, notesFile, token, effects, added, clean, prompted>>

generate_password(length) ==
    /\ call' = Call("generate_password", <<>>, length, FALSE)
    /\ IF TooShort(length)
       THEN ret' = Str(<<"Password must be at least 6 characters long.">>)
       ELSE \E password \in [1..length -> Drawn] : ret' = Str(password)
    /\ ToolUnchanged

NextPassword == \E length \in -1..MaxLength : generate_password(length)

SpecPassword == Init /\ [][NextPassword]_vars

\* C9: generate_password(length) returns the rejection message for every
\* length below 6, and for every length of 6 or more a string of exactly
\* `length` characters, each an ASCII letter, a digit or a punctuation mark.
C9_PasswordLengthAndAlphabet ==
    call.op = "generate_password" =>
        /\ call.num < 6 => ret = Str(<<"Password must be at least 6 characters long.">>)
        /\ call.num >= 6 =>
                /\ ret.kind = "str"
                /\ Len(ret.text) = call.num
                /\ \A i \in 1..Len(ret.text) :
                        ret.text[i] \in ascii_letters \cup digits \cup punctuation

\* a password of the floor length that holds a letter, a digit and a mark
C9_Witness ==
    /\ call.op = "generate_password"
    /\ call.num = 6
    /\ Len(ret.text) = 6
    /\ \E i, j, k \in 1..6 :
            /\ ret.text[i] \in ascii_letters
            /\ ret.text[j] \in digits
            /\ ret.text[k] \in punctuation

----------------------------------------------------------------------------
(* The Google Calendar tools *)

NoCreds == [valid |-> FALSE, expired |-> FALSE, refresh_token |-> FALSE]

\* The credentials token.pickle may hold: valid ones, expired ones with and
\* without a refresh token, and ones with no access token at all (not valid,
\* not expired), with and without a refresh token.
CredsStates ==
    { [valid |-> TRUE, expired |-> FALSE, refresh_token |-> TRUE],
      [valid |-> TRUE, expired |-> FALSE, refresh_token |-> FALSE],
      [valid |-> FALSE, expired |-> TRUE, refresh_token |-> TRUE],
      [valid |-> FALSE, expired |-> TRUE, refresh_token |-> FALSE],
      [valid |-> FALSE, expired |-> FALSE, refresh_token |-> TRUE],
      NoCreds }

NoTokenFile == [exists |-> FALSE, loads |-> FALSE, creds |-> NoCreds]
TokenFile(creds) == [exists |-> TRUE, loads |-> TRUE, creds |-> creds]
\* A token.pickle that pickle.load cannot read.
BrokenTokenFile == [exists |-> TRUE, loads |-> FALSE, creds |-> NoCreds]

\* The external steps of a calendar call that can fail.
Faults == {"refresh", "authorize", "api"}

\* The credential block without the write after a refresh: the refreshed
\* credentials go to the API call but not to token.pickle.
CredentialsRefreshUnsaved(tok, faults, granted) ==
    LET loaded == tok.exists
        creds == IF loaded THEN tok.creds ELSE NoCreds
        have == loaded /\ tok.loads
        load == IF loaded THEN <<"load">> ELSE <<>>
    IN  IF loaded /\ ~tok.loads
        THEN [steps |-> load, token |-> tok, raised |-> TRUE, error |-> "UnpicklingError"]
        ELSE IF have /\ creds.valid
        THEN [steps |-> load, token |-> tok, raised |-> FALSE, error |-> ""]
        ELSE IF have /\ creds.expired /\ creds.refresh_token
        THEN IF "refresh" \in faults
             THEN [steps |-> load \o <<"refresh">>, token |-> tok, raised |-> TRUE,
                   error |-> "RefreshError"]
             ELSE [steps |-> load \o <<"refresh">>, token |-> tok,
                   raised |-> FALSE, error |-> ""]
        ELSE IF "authorize" \in faults
             THEN [steps |-> load \o <<"authorize">>, token |-> tok, raised |-> TRUE,
                   error |-> "FileNotFoundError"]
             ELSE [steps |-> load \o <<"authorize", "write">>,
                   token |-> TokenFile([valid |-> TRUE, expired |-> FALSE,
                                        refresh_token |-> granted]),
                   raised |-> FALSE, error |-> ""]

\* The credential block of both calendar tools (the same lines twice): the
\* steps it performs, the token cache it leaves, and whether an exception left
\* it.  `faults` are the steps that fail in this call, `granted` says whether
\* an authorization hands out a refresh token.
Credentials(tok, faults, granted) ==
    LET loaded == tok.exists
        creds == IF loaded THEN tok.creds ELSE NoCreds
        have == loaded /\ tok.loads
        load == IF loaded THEN <<"load">> ELSE <<>>
    IN  IF loaded /\ ~tok.loads
        THEN [steps |-> load, token |-> tok, raised |-> TRUE, error |-> "UnpicklingError"]
        ELSE IF have /\ creds.valid
        THEN [steps |-> load, token |-> tok, raised |-> FALSE, error |-> ""]
        ELSE IF have /\ creds.expired /\ creds.refresh_token
        THEN IF "refresh" \in faults
             THEN [steps |-> load \o <<"refresh">>, token |-> tok, raised |-> TRUE,
                   error |-> "RefreshError"]
             ELSE [steps |-> load \o <<"refresh", "write">>,
                   token |-> TokenFile([valid |-> TRUE, expired |-> FALSE,
                                        refresh_token |-> TRUE]),
                   raised |-> FALSE, error |-> ""]
        ELSE IF "authorize" \in faults
             THEN [steps |-> load \o <<"authorize">>, token |-> tok, raised |-> TRUE,
                   error |-> "FileNotFoundError"]
             ELSE [steps |-> load \o <<"authorize", "write">>,
                   token |-> TokenFile([valid |-> TRUE, expired |-> FALSE,
                                        refresh_token |-> granted]),
                   raised |-> FALSE, error |-> ""]

CalendarUnchanged == UNCHANGED <<todo, notesFile, added, clean, prompted>>

\* The values of `days`: unset, and a number of days.
DaysValues == {None, <<"0">>, <<"7">>}

get_calendar_events(days, faults, granted, events) ==
    LET auth == Credentials(token, faults, granted)
    IN  /\ call' = Call("get_calendar_events", <<days>>, 0, FALSE)
        /\ IF days = None
           THEN /\ ret' = Str(<<"How many days ahead would you like to check your calendar events for?">>)
                /\ effects' = <<>>
                /\ token' = token
           ELSE /\ token' = auth.token
                /\ IF auth.raised
                   THEN /\ effects' = auth.steps
                        /\ ret' = Raised(auth.error)
                   ELSE /\ effects' = auth.steps \o <<"api">>
                        /\ ret' = IF "api" \in faults
                                  THEN Str(<<"Error fetching calendar events: ", "<e>">>)
                                  ELSE IF events = <<>>
                                  THEN Str(<<"No upcoming events found in the next ">> \o days
                                            \o <<" day(s).">>)
                                  ELSE Str(<<"Here are your events for the next ">> \o days
                                            \o <<" day(s):">> \o <<NL>> \o events)
        /\ CalendarUnchanged

\* `not x` of an argument that is None or a str, with the empty string let
\* through: `x is None`
IsNoneOnly(text) == text = None

\* `not x` of an argument that is None or a str
Not(text) == text = None \/ text = <<>>

\* The values of summary, start_time and end_time: unset, empty, and given.
FieldValues == {None, <<>>, <<"v">>}

add_calendar_event(summary, start_time, end_time, faults, granted) ==
    LET auth == Credentials(token, faults, granted)
        asked == Not(summary) \/ Not(start_time) \/ Not(end_time)
    IN  /\ call' = Call("add_calendar_event", <<summary, start_time, end_time>>, 0, FALSE)
        /\ IF asked
           THEN /\ ret' =
                    IF Not(summary) THEN Str(<<"What should I name the event?">>)
                    ELSE IF Not(start_time)
                    THEN Str(<<"When should the event start? (Please say in format like '2025-07-22T15:00:00+05:30')">>)
                    ELSE Str(<<"When should the event end? (Please say in format like '2025-07-22T16:00:00+05:30')">>)
                /\ effects' = <<>>
                /\ token' = token
           ELSE /\ token' = auth.token
                /\ IF auth.raised
                   THEN /\ effects' = auth.steps
                        /\ ret' = Raised(auth.error)
                   ELSE /\ effects' = auth.steps \o <<"api">>
                        /\ ret' = IF "api" \in faults
                                  THEN Str(<<"<warning sign> Failed to add event: ", "<e>">>)
                                  ELSE Str(<<"<check mark> Event created successfully!", NL, "Title: ">>
                                            \o summary \o <<NL, "Start: ">> \o start_time
                                            \o <<NL, "End: ">> \o end_time
                                            \o <<NL, "Link: ", "<htmlLink>">>)
        /\ CalendarUnchanged

\* Time passes, or something else than these tools writes or removes
\* token.pickle.
TokenChanges ==
    /\ \E tok \in {NoTokenFile, BrokenTokenFile} \cup {TokenFile(c) : c \in CredsStates} :
            token' = tok
    /\ call' = Call("token.pickle changes", <<>>, 0, FALSE)
    /\ ret' = Str(<<>>)
    /\ effects' = <<>>
    /\ CalendarUnchanged

NextCalendar ==
    \/ \E days \in DaysValues, faults \in SUBSET Faults, granted \in BOOLEAN,
          events \in {<<>>, <<"<events>">>} :
            get_calendar_events(days, faults, granted, events)
    \/ \E summary \in FieldValues, start_time \in FieldValues, end_time \in FieldValues,
          faults \in SUBSET Faults, granted \in BOOLEAN :
            add_calendar_event(summary, start_time, end_time, faults, granted)
    \/ TokenChanges

----------------------------------------------------------------------------
(* The wrappers around remote services and libraries.  Each draws the        *)
(* outcome of its one external step: a result, or an exception raised.       *)

\* The text arguments the model passes to the wrappers.
Words == { <<"w">> }

Wrapper(op, texts, text) ==
    /\ call' = Call(op, texts, 0, FALSE)
    /\ ret' = Str(text)
    /\ effects' = <<>>
    /\ UNCHANGED <<todo, notesFile, token, added, clean, prompted>>

get_weather(city, outcome) ==
    Wrapper("get_weather", <<city>>,
            IF outcome = "200" THEN strip(<<"<response.text>", NL>>)
            ELSE <<"Couldn't fetch weather for ">> \o city \o <<".">>)

search_web(query, outcome) ==
    Wrapper("search_web", <<query>>,
            IF outcome = "ok" THEN <<"<results>">>
            ELSE <<"Could not perform search for '">> \o query \o <<"'.">>)

send_email(to_email, outcome) ==
    Wrapper("send_email", <<to_email>>,
            CASE outcome = "no credentials" -> <<"Gmail credentials not set in environment.">>
              [] outcome = "ok" -> <<"Email sent to ">> \o to_email \o <<".">>
              [] outcome = "SMTPAuthenticationError" -> <<"Authentication with SMTP failed.">>
              [] OTHER -> <<"Failed to send the email.">>)

get_system_info(outcome) ==
    Wrapper("get_system_info", <<>>,
            IF outcome = "ok" THEN <<"<CPU, RAM and disk usage>">>
            ELSE <<"Error getting system info: ", "<e>">>)

solve_math(expression, outcome) ==
    Wrapper("solve_math", <<expression>>,
            IF outcome = "ok" THEN <<"Result: ", "<result>">>
            ELSE <<"Error solving math: ", "<e>">>)

wikipedia_summary(topic, outcome) ==
    Wrapper("wikipedia_summary", <<topic>>,
            CASE outcome = "ok" -> <<"<summary>">>
              [] outcome = "DisambiguationError" ->
                    <<"Topic is ambiguous. Options: ", "<options>", "...">>
              [] outcome = "PageError" -> <<"Topic not found.">>
              [] OTHER -> <<"Error fetching Wikipedia summary: ", "<e>">>)

get_news_headlines(outcome) ==
    Wrapper("get_news_headlines", <<>>,
            CASE outcome = "not ok" -> <<"Error from news API: ", "<message>">>
              [] outcome = "ok" -> <<"<headlines>">>
              [] outcome = "none" -> <<"No headlines found.">>
              [] OTHER -> <<"Error fetching news: ", "<e>">>)

get_joke_or_quote(type, outcome) ==
    Wrapper("get_joke_or_quote", <<type>>,
            CASE outcome = "raise" -> <<"Error fetching joke/quote: ", "<e>">>
              [] outcome = "200" /\ type = <<"joke">> -> <<"<setup>", NL, "<punchline>">>
              [] outcome = "200" /\ type # <<"joke">> -> <<"<content>", " - ", "<author>">>
              [] outcome = "status" /\ type = <<"joke">> -> <<"Couldn't fetch a joke.">>
              [] OTHER -> <<"Couldn't fetch a quote.">>)

convert_currency(outcome) ==
    Wrapper("convert_currency", <<>>,
            CASE outcome = "ok" -> <<"<amount>", " ", "<FROM>", " = ", "<result>", " ", "<TO>">>
              [] outcome = "no success" -> <<"Currency conversion failed: ", "<error>">>
              [] OTHER -> <<"Error converting currency: ", "<e>">>)

convert_units(outcome) ==
    Wrapper("convert_units", <<>>,
            IF outcome = "ok"
            THEN <<"<value>", " ", "<from_unit>", " = ", "<magnitude>", " ", "<to_unit>">>
            ELSE <<"Error converting units: ", "<e>">>)

set_timer(seconds) ==
    Wrapper("set_timer", <<seconds>>, <<"Timer set for ">> \o seconds \o <<" seconds.">>)

NextWrappers ==
    \/ \E city \in Words, outcome \in {"200", "status", "raise"} : get_weather(city, outcome)
    \/ \E query \in Words, outcome \in {"ok", "raise"} : search_web(query, outcome)
    \/ \E to_email \in Words,
          outcome \in {"no credentials", "ok", "SMTPAuthenticationError", "raise"} :
            send_email(to_email, outcome)
    \/ \E outcome \in {"ok", "raise"} : get_system_info(outcome)
    \/ \E expression \in Words, outcome \in {"ok", "raise"} : solve_math(expression, outcome)
    \/ \E topic \in Words,
          outcome \in {"ok", "DisambiguationError", "PageError", "raise"} :
            wikipedia_summary(topic, outcome)
    \/ \E outcome \in {"not ok", "ok", "none", "raise"} : get_news_headlines(outcome)
    \/ \E type \in {<<"joke">>, <<"quote">>}, outcome \in {"200", "status", "raise"} :
            get_joke_or_quote(type, outcome)
    \/ \E outcome \in {"ok", "no success", "raise"} : convert_currency(outcome)
    \/ \E outcome \in {"ok", "raise"} : convert_units(outcome)
    \/ \E seconds \in {<<"5">>} : set_timer(seconds)

NextTools == NextCalendar \/ NextWrappers

SpecTools == Init /\ [][NextTools]_vars

Next == NextStore \/ NextFile \/ NextPath \/ NextPassword \/ NextTools

Spec == Init /\ [][Next]_vars

----------------------------------------------------------------------------
\* C6: every tool call completes with a string, whatever the outcome of its
\* external step: no exception reaches the caller.
C6_EveryToolReturnsAString ==
    call.op \notin {"start", "token.pickle changes"} => ret.kind = "str"

----------------------------------------------------------------------------
\* C7: add_calendar_event with a missing or empty event name, start time or
\* end time (in that order) returns the question for the first such field,
\* and get_calendar_events with days unset returns its question; neither
\* loads, refreshes, authorizes or writes credentials or calls the calendar API.
C7_QuestionStep ==
    /\ call'.op = "add_calendar_event" =>
        LET summary == call'.texts[1]
            start_time == call'.texts[2]
            end_time == call'.texts[3]
            missing(x) == x = None \/ x = <<>>
            quiet == effects' = <<>> /\ token' = token
        IN  /\ missing(summary) =>
                    /\ ret' = Str(<<"What should I name the event?">>)
                    /\ quiet
            /\ (~missing(summary) /\ missing(start_time)) =>
                    /\ ret' = Str(<<"When should the event start? (Please say in format like '2025-07-22T15:00:00+05:30')">>)
                    /\ quiet
            /\ (~missing(summary) /\ ~missing(start_time) /\ missing(end_time)) =>
                    /\ ret' = Str(<<"When should the event end? (Please say in format like '2025-07-22T16:00:00+05:30')">>)
                    /\ quiet
    /\ (call'.op = "get_calendar_events" /\ call'.texts = <<None>>) =>
            /\ ret' = Str(<<"How many days ahead would you like to check your calendar events for?">>)
            /\ effects' = <<>>
            /\ token' = token

\* C7: every calendar step with a missing field is a question without any
\* external effect.
C7_QuestionWithoutEffect == [][C7_QuestionStep]_vars

\* add_calendar_event with a name, an empty start time and no end time, asked
\* while token.pickle holds expired credentials
C7_Witness ==
    /\ call.op = "add_calendar_event"
    /\ call.texts = << <<"v">>, <<>>, None >>
    /\ ret = Str(<<"When should the event start? (Please say in format like '2025-07-22T15:00:00+05:30')">>)
    /\ token = TokenFile([valid |-> FALSE, expired |-> TRUE, refresh_token |-> TRUE])
    /\ effects = <<>>

----------------------------------------------------------------------------
(* The credential steps of the calendar tools: C12 *)

\* The call `c` of a calendar tool is answered by a question for a missing
\* argument.
Asked(c) ==
    IF c.op = "get_calendar_events" THEN c.texts[1] = None
    ELSE \E i \in 1..Len(c.texts) : c.texts[i] = None \/ c.texts[i] = <<>>

\* The external steps a calendar call is to perform, in order, given the
\* token cache it starts from.
Plan(tok) ==
    LET load == IF tok.exists THEN <<"load">> ELSE <<>>
        usable == tok.exists /\ tok.loads
    IN  IF usable /\ tok.creds.valid THEN load \o <<"api">>
        ELSE IF usable /\ tok.creds.expired /\ tok.creds.refresh_token
        THEN load \o <<"refresh", "write", "api">>
        ELSE load \o <<"authorize", "write", "api">>

IsPrefix(s, t) == Len(s) <= Len(t) /\ SubSeq(t, 1, Len(s)) = s

Steps(log) == {log[i] : i \in 1..Len(log)}

C12_CredentialStep ==
    (call'.op \in {"get_calendar_events", "add_calendar_event"} /\ ~Asked(call')) =>
        /\ IsPrefix(effects', Plan(token))
        /\ effects' # <<>>
        /\ ret'.kind = "str" <=> effects' = Plan(token)
        /\ Cardinality({i \in 1..Len(effects') : effects'[i] = "api"}) <= 1
        /\ IF "write" \in Steps(effects')
           THEN token'.exists /\ token'.loads /\ token'.creds.valid
           ELSE token' = token

\* C12: both calendar tools perform the credential steps in one fixed order
\* before the single API call: load the token cache if it exists; with valid
\* loaded credentials nothing more (no refresh, no authorization, no write);
\* otherwise a refresh when the loaded credentials are expired and carry a
\* refresh token, else the interactive authorization; and after either the
\* write of the credentials to the token cache, then the API call.
C12_CredentialOrder == [][C12_CredentialStep]_vars

\* add_calendar_event that found expired credentials with a refresh token in
\* token.pickle: loaded, refreshed, written back, then the API call
C12_Witness ==
    /\ call.op = "add_calendar_event"
    /\ effects = <<"load", "refresh", "write", "api">>
    /\ token = TokenFile([valid |-> TRUE, expired |-> FALSE, refresh_token |-> TRUE])
    /\ ret.kind = "str"

----------------------------------------------------------------------------
(* The depth bound of find_file: C13 *)

\* How many directory levels the directory `path` lies below `top`: 0 for
\* `top` itself, 1 for its subdirectories, and so on.
Level(path, top) ==
    IF path = top THEN 0 ELSE SepCount(relpath(path, top)) + 1

\* C13: find_file returns a file only from a directory at most max_depth
\* levels below search_dir (search_dir itself being level 0), the file
\* returned exists under that name in the directory returned, and when every
\* file of that name lies deeper the result is (None, None).
C13_FoundWithinLevels ==
    call.op = "find_file" =>
        LET filename == call.texts[1]
            top == abspath(call.texts[2])
            holders == {i \in Below(top) : HasFile(Tree[i], filename)}
        IN  /\ ret.text # <<None, None>> =>
                \E i \in holders :
                    /\ ret.text = <<PathJoin(Tree[i].path, filename), Tree[i].path>>
                    /\ Level(Tree[i].path, top) <= call.num
            /\ (\A i \in holders : Level(Tree[i].path, top) > call.num) =>
                    ret.text = <<None, None>>

====
